---- MODULE Spec2Model ----
(***************************************************************************)
(* Model of src/tools/changelog-tool.ts of pi-extension-dev: the changelog *)
(* parser (parseChangelogEntries), the version lookup (findChangelogEntry),*)
(* the version ordering (isNewerThanInstalled) and the two tools built on  *)
(* them (pi_changelog, pi_changelog_versions).                             *)
(*                                                                         *)
(* A JavaScript string is a sequence of one-character strings, so that     *)
(* split, trim, the regular expressions and the template literals are      *)
(* computed character by character.  An optional value (parameter or       *)
(* field that may be undefined, a function that may return null) is a      *)
(* sequence of length 0 or 1: <<>> is undefined/null, <<x>> is x.          *)
(***************************************************************************)
EXTENDS Integers, Sequences, FiniteSets

VARIABLES
    changelogContent,   \* the document handed to the parser / lookup
    op,                 \* the core function called last ("none" before any call)
    requestedVersion,   \* the optional version argument of the last lookup
    parsed,             \* return value of the last parseChangelogEntries call
    found,              \* return value of the last findChangelogEntry call
    listed,             \* details of the last version listing
    VERSION,            \* the installed Pi version (imported constant)
    newer,              \* return value of the last isNewerThanInstalled call
    localChangelog,     \* the local CHANGELOG.md: missing, readable, unreadable
    githubChangelog,    \* the text of the remote CHANGELOG.md
    calls,              \* the pi_changelog invocations, by call id
    versionsCall,       \* what pi_changelog_versions.execute has consulted
    candidate,          \* the entry version the last match test was given
    matched,            \* the alternatives of the last match test
    newerSwapped,       \* isNewerThanInstalled with the two versions swapped
    piInstallation,     \* the files of the Pi installation pi_docs looks at
    docsResult          \* what pi_docs.execute returned

vars == <<changelogContent, op, requestedVersion, parsed, found, listed,
          VERSION, newer, localChangelog, githubChangelog, calls,
          versionsCall, candidate, matched, newerSwapped, piInstallation,
          docsResult>>

\* The variables of the match test, of pi_changelog_versions' bookkeeping,
\* of the swapped comparison and of pi_docs.
otherVars ==
    <<versionsCall, candidate, matched, newerSwapped, piInstallation,
      docsResult>>

(***************************************************************************)
(* Characters and string primitives                                        *)
(***************************************************************************)

NL == "\n"

Digits == {"0", "1", "2", "3", "4", "5", "6", "7", "8", "9"}

\* The characters \s and String.prototype.trim treat as white space.
WhiteSpace == {" ", "\n", "\t"}

Min(S) == CHOOSE x \in S : \A y \in S : x <= y

Max(S) == CHOOSE x \in S : \A y \in S : x >= y

None == <<>>

Some(x) == <<x>>

\* String.prototype.split(sep) for a one-character separator.
RECURSIVE split(_, _)
split(s, sep) ==
    LET at == {i \in 1..Len(s) : s[i] = sep}
    IN  IF at = {} THEN <<s>>
        ELSE <<SubSeq(s, 1, Min(at) - 1)>>
                 \o split(SubSeq(s, Min(at) + 1, Len(s)), sep)

\* Array.prototype.join(sep).
RECURSIVE join(_, _)
join(parts, sep) ==
    IF Len(parts) = 0 THEN <<>>
    ELSE IF Len(parts) = 1 THEN parts[1]
    ELSE parts[1] \o sep \o join(Tail(parts), sep)

\* String.prototype.trim().
trim(s) ==
    LET keep == {i \in 1..Len(s) : s[i] \notin WhiteSpace}
    IN  IF keep = {} THEN <<>> ELSE SubSeq(s, Min(keep), Max(keep))

\* v.replace(/^v/, ""): one leading "v" removed.
normalize(v) ==
    IF Len(v) > 0 /\ v[1] = "v" THEN Tail(v) ELSE v

\* The elements of a finite set of numbers in increasing order.
RECURSIVE Ascending(_)
Ascending(S) ==
    IF S = {} THEN <<>> ELSE <<Min(S)>> \o Ascending(S \ {Min(S)})

\* Length of the longest prefix of s made of characters of C.
RunLength(s, C) ==
    LET other == {i \in 1..Len(s) : s[i] \notin C}
    IN  IF other = {} THEN Len(s) ELSE Min(other) - 1

(***************************************************************************)
(* Parsing: parseChangelogEntries                                          *)
(***************************************************************************)

NoMatch == [matched |-> FALSE, g1 |-> <<>>, g2 |-> <<>>]

\* The group (?:\[([^\]]+)\]|([^[\s]+)) tried at position p of s.
TokenAt(s, p) ==
    IF p > Len(s) THEN NoMatch
    ELSE IF s[p] = "["
    THEN LET close == {i \in (p + 1)..Len(s) : s[i] = "]"}
         IN  IF close = {} \/ Min(close) = p + 1 THEN NoMatch
             ELSE [matched |-> TRUE,
                   g1 |-> SubSeq(s, p + 1, Min(close) - 1), g2 |-> <<>>]
    ELSE IF s[p] \in WhiteSpace THEN NoMatch
    ELSE LET rest == SubSeq(s, p, Len(s))
             n == RunLength(rest, {c \in {rest[i] : i \in 1..Len(rest)} :
                                     c # "[" /\ c \notin WhiteSpace})
         IN  [matched |-> TRUE, g1 |-> <<>>, g2 |-> SubSeq(rest, 1, n)]

\* s.match(/^#+\s*(?:\[([^\]]+)\]|([^[\s]+))/).  The greedy "#+" and "\s*"
\* are tried first; when the group fails there, giving back white space
\* cannot help (the group never starts on white space), and giving back one
\* "#" makes the group match a token that starts with that "#".
\* h is the length of the run of "#" s starts with, first the result of the
\* group right after that run and the white space that follows it.
matchOrBacktrack(s, h, first) ==
    IF h = 0 THEN NoMatch
    ELSE IF first.matched THEN first
    ELSE IF h >= 2 THEN TokenAt(s, h)
    ELSE NoMatch

\* matchAfterHashes for "\s+" in place of "\s*": white space is required
\* between the run of "#" and the token.
matchAfterHashesNeedsSpace(s, h) ==
    IF h < Len(s) /\ s[h + 1] \in WhiteSpace
    THEN matchOrBacktrack(s, h,
             TokenAt(s, h + RunLength(SubSeq(s, h + 1, Len(s)), WhiteSpace) + 1))
    ELSE NoMatch

matchAfterHashes(s, h) ==
    matchOrBacktrack(s, h,
        TokenAt(s, h + RunLength(SubSeq(s, h + 1, Len(s)), WhiteSpace) + 1))

versionMatch(s) == matchAfterHashes(s, RunLength(s, {"#"}))

\* versionShaped for /^v?\d+/: the dot and the minor number not required.
versionShapedDigitsOnly(version) ==
    RunLength(normalize(version), Digits) >= 1

\* /^v?\d+\.\d+/.test(version)
versionShaped(version) ==
    LET t == normalize(version)
        d == RunLength(t, Digits)
    IN  /\ d >= 1
        /\ Len(t) >= d + 2
        /\ t[d + 1] = "."
        /\ t[d + 2] \in Digits

\* matchedToken with one leading "v" of the token dropped.
matchedTokenNormalized(m) ==
    normalize(IF m.g1 # <<>> THEN m.g1 ELSE m.g2)

\* versionMatch[1] || versionMatch[2]
matchedToken(m) == IF m.g1 # <<>> THEN m.g1 ELSE m.g2

\* The tests of lines 83-85 on the match m of a line.
acceptsMatch(m) ==
    /\ m.matched
    /\ matchedToken(m) # <<>>
    /\ versionShaped(matchedToken(m))

\* Whether line (an element of lines) pushes an entry (lines 80-88).
isVersionHeading(line) ==
    /\ line # <<>>
    /\ acceptsMatch(versionMatch(trim(line)))

\* One alternative of /^-+$|^=+$|^\*+$|^#+$/ matching a whole line.
isSeparatorLine(l) ==
    /\ Len(l) >= 1
    /\ l[1] \in {"-", "=", "*", "#"}
    /\ \A i \in 1..Len(l) : l[i] = l[1]

\* rawContent.replace(/^-+$|^=+$|^\*+$|^#+$/gm, "")
stripSeparators(rawContent) ==
    LET ls == split(rawContent, NL)
    IN  join([i \in 1..Len(ls) |->
                 IF isSeparatorLine(ls[i]) THEN <<>> ELSE ls[i]], <<NL>>)

\* "[Empty changelog entry - no details provided for this version]"
EmptyEntryPlaceholder ==
    <<"[","E","m","p","t","y"," ","c","h","a","n","g","e","l","o","g"," ",
      "e","n","t","r","y"," ","-"," ","n","o"," ","d","e","t","a","i","l","s",
      " ","p","r","o","v","i","d","e","d"," ","f","o","r"," ","t","h","i","s",
      " ","v","e","r","s","i","o","n","]">>

\* The emptiness threshold of line 104.
MinContentLength == 10

\* chooseContent with the length threshold forgotten: only a body that is
\* empty after stripping becomes the placeholder.
chooseContentNoThreshold(rawContent, cleanContent) ==
    IF cleanContent = <<>> THEN EmptyEntryPlaceholder ELSE rawContent

\* chooseContent storing the decoration-stripped text instead of the raw one.
chooseContentStripped(rawContent, cleanContent) ==
    IF cleanContent = <<>> \/ Len(cleanContent) < MinContentLength
    THEN EmptyEntryPlaceholder
    ELSE cleanContent

\* chooseContent with the threshold off by one: a stripped body of exactly
\* MinContentLength characters is replaced too.
chooseContentOffByOne(rawContent, cleanContent) ==
    IF cleanContent = <<>> \/ Len(cleanContent) <= MinContentLength
    THEN EmptyEntryPlaceholder
    ELSE rawContent

\* Lines 104-109: the placeholder or the raw content.
chooseContent(rawContent, cleanContent) ==
    IF cleanContent = <<>> \/ Len(cleanContent) < MinContentLength
    THEN EmptyEntryPlaceholder
    ELSE rawContent

\* contentOfRaw judging emptiness on the raw text, separators included.
contentOfRawUnstripped(rawContent) ==
    chooseContent(rawContent, rawContent)

\* Lines 101-109 for the trimmed text of a span.
contentOfRaw(rawContent) ==
    chooseContent(rawContent, trim(stripSeparators(rawContent)))

\* entryContent without the trim of line 99.
entryContentUntrimmed(contentLines) ==
    contentOfRaw(join(contentLines, <<NL>>))

\* The content stored for the lines of one entry's span (lines 98-109).
entryContent(contentLines) ==
    contentOfRaw(trim(join(contentLines, <<NL>>)))

\* headingPositions keeping, of the headings that carry the same version,
\* only the first.
headingPositionsDeduplicated(lines) ==
    Ascending({i \in 1..Len(lines) :
        /\ isVersionHeading(lines[i])
        /\ \A j \in 1..(i - 1) :
               isVersionHeading(lines[j]) =>
                   matchedToken(versionMatch(trim(lines[j])))
                       # matchedToken(versionMatch(trim(lines[i])))})

\* The first loop (lines 79-89): the positions in lines, counted from 1, of
\* the lines that push an entry, in increasing order.
headingPositions(lines) ==
    Ascending({i \in 1..Len(lines) : isVersionHeading(lines[i])})

\* entryAt slicing from lineStart, the heading line included.
entryAtIncludingHeading(lines, start, nextStart) ==
    [version   |-> matchedToken(versionMatch(trim(lines[start + 1]))),
     content   |-> entryContent(SubSeq(lines, start + 1, nextStart)),
     lineStart |-> start,
     lineEnd   |-> nextStart]

\* The second loop (lines 91-110) for the k-th heading: start and nextStart
\* are the 0-based lineStart of the entry and of the next one.
entryAt(lines, start, nextStart) ==
    [version   |-> matchedToken(versionMatch(trim(lines[start + 1]))),
     content   |-> entryContent(SubSeq(lines, start + 2, nextStart)),
     lineStart |-> start,
     lineEnd   |-> nextStart]

entriesAt(lines, heads) ==
    [k \in 1..Len(heads) |->
        entryAt(lines, heads[k] - 1,
                IF k < Len(heads) THEN heads[k + 1] - 1 ELSE Len(lines))]

entriesOfLines(lines) == entriesAt(lines, headingPositions(lines))

\* parseChangelogEntries(changelogContent).entries; lineStart and lineEnd
\* are the 0-based indices of the code.
parseChangelogEntries(content) ==
    entriesOfLines(split(content, NL))

(***************************************************************************)
(* Lookup: findChangelogEntry                                              *)
(***************************************************************************)

\* "No version entries found"
MsgNoEntries ==
    <<"N","o"," ","v","e","r","s","i","o","n"," ","e","n","t","r","i","e",
      "s"," ","f","o","u","n","d">>

\* "Version "
MsgVersion ==
    <<"V","e","r","s","i","o","n"," ">>

\* " not found. Available: "
MsgNotFoundAvailable ==
    <<" ","n","o","t"," ","f","o","u","n","d","."," ","A","v","a","i","l",
      "a","b","l","e",":"," ">>

\* "Found changelog for version "
MsgFound ==
    <<"F","o","u","n","d"," ","c","h","a","n","g","e","l","o","g"," ","f",
      "o","r"," ","v","e","r","s","i","o","n"," ">>

\* "Latest changelog entry: "
MsgLatest ==
    <<"L","a","t","e","s","t"," ","c","h","a","n","g","e","l","o","g"," ",
      "e","n","t","r","y",":"," ">>

\* Truthy for `requestedVersion !== undefined`: the empty string counts
\* as a requested version.
TruthyWhenSupplied(opt) == opt # None

\* Whether `if (requestedVersion)` takes the branch: the argument is given
\* and is not the empty string.
Truthy(opt) == opt # None /\ opt[1] # <<>>

\* matchesRequested without its third alternative.
matchesRequestedNoNormalized(e, requested) ==
    \/ e.version = requested
    \/ e.version = <<"v">> \o normalize(requested)

\* matchesRequested with the second alternative built from the request as
\* given, its leading "v" not removed first.
matchesRequestedPrefixUnnormalized(e, requested) ==
    \/ e.version = requested
    \/ e.version = <<"v">> \o requested
    \/ normalize(e.version) = normalize(requested)

\* The predicate of entries.find (lines 132-135).
matchesRequested(e, requested) ==
    \/ e.version = requested
    \/ e.version = <<"v">> \o normalize(requested)
    \/ normalize(e.version) = normalize(requested)

\* The three alternatives of the predicate one by one, and the predicate.
matchAlternatives(e, requested) ==
    [exact      |-> e.version = requested,
     prefixed   |-> e.version = <<"v">> \o normalize(requested),
     normalized |-> normalize(e.version) = normalize(requested),
     accepted   |-> matchesRequested(e, requested)]

\* findFirst returning the last entry satisfying the predicate.
findLast(entries, requested) ==
    LET hits == {i \in 1..Len(entries) : matchesRequested(entries[i], requested)}
    IN  IF hits = {} THEN None ELSE Some(entries[Max(hits)])

\* entries.find(pred): the first entry satisfying it, or undefined.
findFirst(entries, requested) ==
    LET hits == {i \in 1..Len(entries) : matchesRequested(entries[i], requested)}
    IN  IF hits = {} THEN None ELSE Some(entries[Min(hits)])

\* allVersions in reverse document order.
allVersionsReversed(entries) ==
    [i \in 1..Len(entries) |-> entries[Len(entries) + 1 - i].version]

\* entries.map((e) => e.version)
allVersions(entries) == [i \in 1..Len(entries) |-> entries[i].version]

\* latestEntry taking the entry at the end of the list.
lastEntry(entries) == entries[Len(entries)]

\* entries[0]
latestEntry(entries) == entries[1]

\* Lines 138-150: the result for the entry the search returned.
requestedResult(entries, requested, entry) ==
    IF entry # None
    THEN [success   |-> TRUE,
          changelog |-> Some([version |-> entry[1].version,
                              content |-> entry[1].content]),
          message   |-> MsgFound \o entry[1].version]
    ELSE [success   |-> FALSE,
          changelog |-> None,
          message   |-> MsgVersion \o requested \o MsgNotFoundAvailable
                            \o join(allVersions(entries), <<",", " ">>)]

\* Lines 157-161.
latestResult(latest) ==
    [success   |-> TRUE,
     changelog |-> Some([version |-> latest.version,
                         content |-> latest.content]),
     message   |-> MsgLatest \o latest.version]

\* The lookup on an already parsed entry list (lines 125-161).
resolveEntry(entries, requested) ==
    IF Len(entries) = 0
    THEN [success |-> FALSE, changelog |-> None, message |-> MsgNoEntries]
    ELSE IF Truthy(requested)
    THEN requestedResult(entries, requested[1],
                         findFirst(entries, requested[1]))
    ELSE latestResult(latestEntry(entries))

\* findChangelogEntry(changelogContent, requestedVersion).  Nothing in the
\* try block throws for string arguments, so the catch clause has no case.
findChangelogEntry(content, requested) ==
    resolveEntry(parseChangelogEntries(content), requested)

(***************************************************************************)
(* Listing: the body of pi_changelog_versions.execute after the read       *)
(***************************************************************************)

\* "No version entries found in changelog"
MsgNoEntriesInChangelog ==
    <<"N","o"," ","v","e","r","s","i","o","n"," ","e","n","t","r","i","e",
      "s"," ","f","o","u","n","d"," ","i","n"," ","c","h","a","n","g","e",
      "l","o","g">>

\* "Found "
MsgFoundCount ==
    <<"F","o","u","n","d"," ">>

\* " versions"
MsgVersions ==
    <<" ","v","e","r","s","i","o","n","s">>

\* " versions available:\n"
MsgVersionsAvailable ==
    <<" ","v","e","r","s","i","o","n","s"," ","a","v","a","i","l","a","b",
      "l","e",":","\n">>

DigitChars == <<"0", "1", "2", "3", "4", "5", "6", "7", "8", "9">>

\* String(n) for a natural number n, as a template literal prints it.
RECURSIVE toDecimal(_)
toDecimal(n) ==
    IF n < 10 THEN <<DigitChars[n + 1]>>
    ELSE toDecimal(n \div 10) \o <<DigitChars[(n % 10) + 1]>>

\* listing without the test for an empty entry list.
listingNoEmptyCheck(versions) ==
    [text     |-> toDecimal(Len(versions)) \o MsgVersionsAvailable
                      \o join(versions, <<",", " ">>),
     success  |-> TRUE,
     message  |-> MsgFoundCount \o toDecimal(Len(versions)) \o MsgVersions,
     versions |-> Some(versions),
     source   |-> Some("local")]

\* listing with the emptiness test off by one: a single version fails too.
listingFailsOnSingle(versions) ==
    IF Len(versions) <= 1
    THEN [text     |-> MsgNoEntriesInChangelog,
          success  |-> FALSE,
          message  |-> MsgNoEntriesInChangelog,
          versions |-> None,
          source   |-> None]
    ELSE [text     |-> toDecimal(Len(versions)) \o MsgVersionsAvailable
                           \o join(versions, <<",", " ">>),
          success  |-> TRUE,
          message  |-> MsgFoundCount \o toDecimal(Len(versions))
                           \o MsgVersions,
          versions |-> Some(versions),
          source   |-> Some("local")]

\* Lines 484-507 for the versions of the parsed entries.
listing(versions) ==
    IF Len(versions) = 0
    THEN [text     |-> MsgNoEntriesInChangelog,
          success  |-> FALSE,
          message  |-> MsgNoEntriesInChangelog,
          versions |-> None,
          source   |-> None]
    ELSE [text     |-> toDecimal(Len(versions)) \o MsgVersionsAvailable
                           \o join(versions, <<",", " ">>),
          success  |-> TRUE,
          message  |-> MsgFoundCount \o toDecimal(Len(versions))
                           \o MsgVersions,
          versions |-> Some(versions),
          source   |-> Some("local")]

\* Lines 483-507: the result for the text of the local changelog.
listVersions(content) ==
    listing(allVersions(parseChangelogEntries(content)))

(***************************************************************************)
(* Version ordering: isNewerThanInstalled                                  *)
(***************************************************************************)

\* The value standing for NaN; every other number of the model is >= 0.
NaN == -1

HexChars ==
    <<"0", "1", "2", "3", "4", "5", "6", "7", "8", "9",
      "a", "b", "c", "d", "e", "f">>

HexValueOf(c) == (CHOOSE i \in 1..Len(HexChars) : HexChars[i] = c) - 1

\* The value of a digit string in the given radix.
RECURSIVE radixValue(_, _)
radixValue(s, radix) ==
    IF s = <<>> THEN 0
    ELSE radixValue(SubSeq(s, 1, Len(s) - 1), radix) * radix
             + HexValueOf(s[Len(s)])

\* Number(s) for a component of a version string.  Covered: white space is
\* trimmed, the empty string is 0, a decimal digit string is its value, a
\* "0x" literal is its hexadecimal value, anything else is NaN.  Signs,
\* exponents, "0b"/"0o" literals and "Infinity" need characters (+ - e b o
\* I) that the version strings of the model do not contain.
Number(s) ==
    LET t == trim(s)
        hexDigits == {HexChars[i] : i \in 1..Len(HexChars)}
    IN  IF t = <<>> THEN 0
        ELSE IF \A i \in 1..Len(t) : t[i] \in Digits THEN radixValue(t, 10)
        ELSE IF /\ Len(t) >= 3
                /\ t[1] = "0"
                /\ t[2] = "x"
                /\ \A i \in 3..Len(t) : t[i] \in hexDigits
             THEN radixValue(SubSeq(t, 3, Len(t)), 16)
        ELSE NaN

\* Greater for ">=" written in place of ">".
GreaterOrEqual(a, b) == a # NaN /\ b # NaN /\ a >= b

\* a > b and a < b on numbers: false as soon as one side is NaN.
Greater(a, b) == a # NaN /\ b # NaN /\ a > b

Less(a, b) == a # NaN /\ b # NaN /\ a < b

\* parts[i] ?? 0 (i counted from 1).
partAt(parts, i) == IF i <= Len(parts) THEN parts[i] ELSE 0

\* loopBound stopping at the shorter list.
loopBoundShorter(reqParts, instParts) == Min({Len(reqParts), Len(instParts)})

\* Math.max(reqParts.length, instParts.length)
loopBound(reqParts, instParts) == Max({Len(reqParts), Len(instParts)})

\* The for loop of lines 182-188 from index i on.
RECURSIVE compareFrom(_, _, _)
compareFrom(reqParts, instParts, i) ==
    IF i > loopBound(reqParts, instParts) THEN FALSE
    ELSE IF Greater(partAt(reqParts, i), partAt(instParts, i)) THEN TRUE
    ELSE IF Less(partAt(reqParts, i), partAt(instParts, i)) THEN FALSE
    ELSE compareFrom(reqParts, instParts, i + 1)

\* v.split(".").map(Number)
numericParts(v) ==
    LET parts == split(v, ".") IN [i \in 1..Len(parts) |-> Number(parts[i])]

\* isNewerThanInstalled taking "not older" for "newer".
isNotOlderThanInstalled(requested, installedVersion) ==
    ~compareFrom(numericParts(normalize(installedVersion)),
                 numericParts(normalize(requested)), 1)

\* isNewerThanInstalled(requestedVersion), with the imported VERSION passed
\* as the second argument.
isNewerThanInstalled(requested, installedVersion) ==
    LET req == normalize(requested)
        installed == normalize(installedVersion)
    IN  IF req = installed THEN FALSE
        ELSE compareFrom(numericParts(req), numericParts(installed), 1)

(***************************************************************************)
(* Inputs of the core functions                                            *)
(***************************************************************************)

\* Lines a generated document is made of.
LineSet ==
    { <<"#","#"," ","1",".","0",".","0">>,
      <<"#","#"," ","v","1",".","0",".","0">>,
      <<"#","#"," ","[","0",".","9",".","0","]"," ","-"," ","2","0","2","4">>,
      <<"#","2",".","0",".","0">>,
      <<"#","#"," ","U","n","r","e","l","e","a","s","e","d">>,
      <<"F","i","x","e","d"," ","b","u","g">>,
      <<"I","n","i","t","i","a","l"," ","r","e","l","e","a","s","e">>,
      <<"-","-","-">>,
      <<"F","i","x","e","d"," ","b","u","g","s">>,
      <<"=","=","=","=","=","=","=","=","=","=">>,
      <<>> }

\* A generated document has at most MaxLines lines.
MaxLines == 3

\* "## 1.0.0\nFixed bug\n\n## 0.9.0\nInitial release"
ExampleDoc ==
    <<"#","#"," ","1",".","0",".","0","\n","F","i","x","e","d"," ","b","u",
      "g","\n","\n","#","#"," ","0",".","9",".","0","\n","I","n","i","t",
      "i","a","l"," ","r","e","l","e","a","s","e">>

\* Text before the first version heading, headings that are no versions
\* inside an entry, a heading with a "v" and a bracketed one.
\* "Preamble text\n## v1.2.0\n### Patch Changes\n- fixed the parser\n## [Unreleased]\n# 1\n## [1.2.0] - date\nOlder release notes"
HeadingKindsDoc ==
    <<"P","r","e","a","m","b","l","e"," ","t","e","x","t","\n","#","#"," ",
      "v","1",".","2",".","0","\n","#","#","#"," ","P","a","t","c","h"," ",
      "C","h","a","n","g","e","s","\n","-"," ","f","i","x","e","d"," ","t",
      "h","e"," ","p","a","r","s","e","r","\n","#","#"," ","[","U","n","r",
      "e","l","e","a","s","e","d","]","\n","#"," ","1","\n","#","#"," ","[",
      "1",".","2",".","0","]"," ","-"," ","d","a","t","e","\n","O","l","d",
      "e","r"," ","r","e","l","e","a","s","e"," ","n","o","t","e","s">>

\* Headings without white space between the "#" run and the token.
\* "#1.0.0\nFirst release notes\n##v2.1\nSecond release notes"
TightHeadingsDoc ==
    <<"#","1",".","0",".","0","\n","F","i","r","s","t"," ","r","e","l","e",
      "a","s","e"," ","n","o","t","e","s","\n","#","#","v","2",".","1","\n",
      "S","e","c","o","n","d"," ","r","e","l","e","a","s","e"," ","n","o",
      "t","e","s">>

\* A body with blank lines and white space around and inside it.
\* "## 1.0.0\n\n  Added a tool\n\nMore notes  \n\n"
PaddedBodyDoc ==
    <<"#","#"," ","1",".","0",".","0","\n","\n"," "," ","A","d","d","e","d",
      " ","a"," ","t","o","o","l","\n","\n","M","o","r","e"," ","n","o","t",
      "e","s"," "," ","\n","\n">>

\* A body made of separator lines only, and one with separator lines
\* around its text.
\* "## 2.0.0\n==========\n\n***\n#\n## 1.0.0\n---\nInitial release\n===\nMore"
DecoratedDoc ==
    <<"#","#"," ","2",".","0",".","0","\n","=","=","=","=","=","=","=","=",
      "=","=","\n","\n","*","*","*","\n","#","\n","#","#"," ","1",".","0",
      ".","0","\n","-","-","-","\n","I","n","i","t","i","a","l"," ","r","e",
      "l","e","a","s","e","\n","=","=","=","\n","M","o","r","e">>

\* Bodies of exactly 10 and of exactly 9 characters.
\* "## 1.0.0\nFixed bugs\n## 0.9.0\nFixed bug"
ThresholdDoc ==
    <<"#","#"," ","1",".","0",".","0","\n","F","i","x","e","d"," ","b","u",
      "g","s","\n","#","#"," ","0",".","9",".","0","\n","F","i","x","e","d",
      " ","b","u","g">>

ScenarioDocs ==
    {HeadingKindsDoc, TightHeadingsDoc, PaddedBodyDoc, DecoratedDoc,
     ThresholdDoc}

Docs ==
    {join(ls, <<NL>>) : ls \in UNION {[1..k -> LineSet] : k \in 0..MaxLines}}
        \cup {ExampleDoc} \cup ScenarioDocs

\* Version strings a caller asks for; <<>> is the empty string.
RequestStrings ==
    { <<>>,
      <<"1",".","0",".","0">>, <<"v","1",".","0",".","0">>,
      <<"0",".","9",".","0">>, <<"v","0",".","9",".","0">>,
      <<"2",".","0",".","0">>, <<"v","2",".","0",".","0">> }

Requests == {None} \cup {Some(r) : r \in RequestStrings}

\* Components of the generated version strings: empty, numeric (one of them
\* with two digits) and non-numeric.
Components == {<<>>, <<"0">>, <<"1">>, <<"2">>, <<"1", "0">>, <<"x">>}

\* A generated version string has at most MaxParts components.
MaxParts == 2

ExampleVersions ==
    { <<"2",".","0",".","0">>, <<"1",".","9",".","9">>, <<"1",".","2">>,
      <<"1",".","2",".","1">>, <<"v","2",".","0",".","0">>, <<"1",".","0",".","0">>,
      <<"1",".","0">>, <<"1",".","x",".","5">>, <<"1",".","2",".","0">> }

DottedVersions ==
    {join(cs, <<".">>) : cs \in UNION {[1..k -> Components] : k \in 1..MaxParts}}

VersionStrings ==
    DottedVersions \cup {<<"v">> \o v : v \in DottedVersions}
        \cup ExampleVersions

(***************************************************************************)
(* State before any call                                                   *)
(***************************************************************************)

NoResult == [success |-> FALSE, changelog |-> None, message |-> <<>>]

NoListing ==
    [text |-> <<>>, success |-> FALSE, message |-> <<>>, versions |-> None,
     source |-> None]

\* "1.0.0"
V100Installed == <<"1", ".", "0", ".", "0">>

\* "0.9.0"
V090Installed == <<"0", ".", "9", ".", "0">>

\* The installed version when the ordering is not what is examined.
DefaultVersion == V100Installed

CallIds == {"c1", "c2"}

NoDetails ==
    [success |-> FALSE, message |-> <<>>, changelog |-> None, source |-> None]

\* An invocation of pi_changelog.execute: where it stands (pc), its
\* params.version, the githubContent it received, what it returns (text
\* of content[0], details), and whether it has called readLocalChangelog
\* (readLocal) and fetch (fetched).
IdleCall ==
    [pc |-> "idle", version |-> None, githubContent |-> None, text |-> <<>>,
     details |-> NoDetails, readLocal |-> FALSE, fetched |-> FALSE]

\* pi_changelog_versions.execute before it is called: whether it has run
\* (pc), called readLocalChangelog (readLocal) and fetch (fetched).
IdleVersionsCall == [pc |-> "idle", readLocal |-> FALSE, fetched |-> FALSE]

\* The three alternatives of the match test and their disjunction.
NoMatchResult ==
    [exact |-> FALSE, prefixed |-> FALSE, normalized |-> FALSE,
     accepted |-> FALSE]

\* findPiInstallation() finds nothing.
NoInstallation ==
    [piPath |-> None, readme |-> FALSE, docs |-> None, examples |-> None]

NoDocsResult ==
    [pc |-> "idle", text |-> <<>>, success |-> FALSE, message |-> <<>>,
     docFiles |-> None, installPath |-> None]

\* No CHANGELOG.md can be located (findPiInstallation or existsSync fails).
NoLocalChangelog == [kind |-> "missing", content |-> <<>>]

(***************************************************************************)
(* The core functions called on drawn inputs: each behaviour draws a       *)
(* document and makes one call, whose arguments and return value the       *)
(* variables then hold.                                                    *)
(***************************************************************************)

InitCore ==
    /\ changelogContent \in Docs
    /\ op = "none"
    /\ requestedVersion = None
    /\ parsed = <<>>
    /\ found = NoResult
    /\ listed = NoListing
    /\ VERSION = DefaultVersion
    /\ newer = FALSE
    /\ localChangelog = NoLocalChangelog
    /\ githubChangelog = <<>>
    /\ calls = [c \in CallIds |-> IdleCall]
    /\ versionsCall = IdleVersionsCall
    /\ candidate = <<>>
    /\ matched = NoMatchResult
    /\ newerSwapped = FALSE
    /\ piInstallation = NoInstallation
    /\ docsResult = NoDocsResult

\* parseChangelogEntries(changelogContent)
Parse ==
    /\ op = "none"
    /\ op' = "parse"
    /\ parsed' = parseChangelogEntries(changelogContent)
    /\ requestedVersion' = None
    /\ found' = NoResult
    /\ listed' = NoListing
    /\ UNCHANGED <<changelogContent, VERSION, newer, localChangelog,
                   githubChangelog, calls,
                   otherVars>>

\* findChangelogEntry(changelogContent, requested); parsed is the entry
\* list the call computed on line 124.
FindEntry ==
    \E requested \in Requests :
        /\ op = "none"
        /\ op' = "find"
        /\ requestedVersion' = requested
        /\ parsed' = parseChangelogEntries(changelogContent)
        /\ found' = findChangelogEntry(changelogContent, requested)
        /\ listed' = NoListing
        /\ UNCHANGED <<changelogContent, VERSION, newer, localChangelog,
                   githubChangelog, calls,
                   otherVars>>

\* The listing of lines 483-507 on changelogContent.
ListVersions ==
    /\ op = "none"
    /\ op' = "list"
    /\ requestedVersion' = None
    /\ parsed' = parseChangelogEntries(changelogContent)
    /\ found' = NoResult
    /\ listed' = listVersions(changelogContent)
    /\ UNCHANGED <<changelogContent, VERSION, newer, localChangelog,
                   githubChangelog, calls,
                   otherVars>>

NextCore == Parse \/ FindEntry \/ ListVersions

SpecCore == InitCore /\ [][NextCore]_vars

(***************************************************************************)
(* isNewerThanInstalled called on drawn versions                           *)
(***************************************************************************)

InitNewer ==
    /\ changelogContent = <<>>
    /\ op = "none"
    /\ requestedVersion = None
    /\ parsed = <<>>
    /\ found = NoResult
    /\ listed = NoListing
    /\ VERSION \in VersionStrings
    /\ newer = FALSE
    /\ localChangelog = NoLocalChangelog
    /\ githubChangelog = <<>>
    /\ calls = [c \in CallIds |-> IdleCall]
    /\ versionsCall = IdleVersionsCall
    /\ candidate = <<>>
    /\ matched = NoMatchResult
    /\ newerSwapped = FALSE
    /\ piInstallation = NoInstallation
    /\ docsResult = NoDocsResult

IsNewer ==
    \E requested \in VersionStrings :
        /\ op = "none"
        /\ op' = "isNewer"
        /\ requestedVersion' = Some(requested)
        /\ newer' = isNewerThanInstalled(requested, VERSION)
        /\ UNCHANGED <<changelogContent, parsed, found, listed, VERSION,
                       localChangelog, githubChangelog, calls,
                   otherVars>>

NextNewer == IsNewer

SpecNewer == InitNewer /\ [][NextNewer]_vars

(***************************************************************************)
(* The tools: pi_changelog.execute and pi_changelog_versions.execute       *)
(***************************************************************************)

\* "Version "  ...  " is newer than installed ("  ...
MsgNewerThanInstalled ==
    <<" ","i","s"," ","n","e","w","e","r"," ","t","h","a","n"," ","i","n",
      "s","t","a","l","l","e","d"," ","(">>

\* ") and GitHub fetch failed."
MsgFetchFailed ==
    <<")"," ","a","n","d"," ","G","i","t","H","u","b"," ","f","e","t","c",
      "h"," ","f","a","i","l","e","d",".">>

\* " (from GitHub)"
MsgFromGitHub ==
    <<" ","(","f","r","o","m"," ","G","i","t","H","u","b",")">>

\* "\n\n## "
MsgHeadingPrefix ==
    <<"\n","\n","#","#"," ">>

\* "Could not locate Pi installation or CHANGELOG.md"
MsgNotLocated ==
    <<"C","o","u","l","d"," ","n","o","t"," ","l","o","c","a","t","e"," ",
      "P","i"," ","i","n","s","t","a","l","l","a","t","i","o","n"," ","o",
      "r"," ","C","H","A","N","G","E","L","O","G",".","m","d">>

\* "Error reading Pi changelog: "
MsgErrorReadingPi ==
    <<"E","r","r","o","r"," ","r","e","a","d","i","n","g"," ","P","i"," ",
      "c","h","a","n","g","e","l","o","g",":"," ">>

\* "Error reading changelog: "
MsgErrorReading ==
    <<"E","r","r","o","r"," ","r","e","a","d","i","n","g"," ","c","h","a",
      "n","g","e","l","o","g",":"," ">>

\* The message of the Error fs.readFileSync throws on an unreadable file.
ReadErrorMessage ==
    <<"E","A","C","C","E","S",":"," ","p","e","r","m","i","s","s","i","o",
      "n"," ","d","e","n","i","e","d">>

\* "## 2.0.0\nInitial release\n\n## 1.0.0\nInitial release"
DocWith200 ==
    <<"#","#"," ","2",".","0",".","0","\n","I","n","i","t","i","a","l"," ",
      "r","e","l","e","a","s","e","\n","\n","#","#"," ","1",".","0",".","0",
      "\n","I","n","i","t","i","a","l"," ","r","e","l","e","a","s","e">>

\* "## Unreleased\nInitial release"
DocWithoutVersions ==
    <<"#","#"," ","U","n","r","e","l","e","a","s","e","d","\n","I","n","i",
      "t","i","a","l"," ","r","e","l","e","a","s","e">>

\* Headings with malformed tokens before a well-formed one.
\* "## [1.0\n##\n## v1.\n## 1.0.0\nInitial release"
MalformedDoc ==
    <<"#","#"," ","[","1",".","0","\n","#","#","\n","#","#"," ","v","1",".",
      "\n","#","#"," ","1",".","0",".","0","\n","I","n","i","t","i","a","l",
      " ","r","e","l","e","a","s","e">>

\* The documents a changelog file or the remote URL holds.
ToolDocs == {<<>>, DocWithoutVersions, ExampleDoc, DocWith200, MalformedDoc}

InstalledVersions == {V100Installed, <<"v">> \o V100Installed, V090Installed}

LocalChangelogs ==
    {NoLocalChangelog, [kind |-> "unreadable", content |-> <<>>]}
        \cup {[kind |-> "readable", content |-> d] : d \in ToolDocs}

\* The value the call returns: the text of content[0] and details.
Returned(text, details) == [text |-> text, details |-> details]

\* Lines 272-283: the result when githubContent is null or empty.
fetchFailedResult(version) ==
    LET message == MsgVersion \o version \o MsgNewerThanInstalled
                       \o VERSION \o MsgFetchFailed
    IN  Returned(message,
                 [success |-> FALSE, message |-> message, changelog |-> None,
                  source |-> None])

\* githubReturn answering a successful lookup like the local path does,
\* its message not marked as coming from GitHub.
githubReturnWithoutSuffix(result) ==
    IF ~result.success \/ result.changelog = None
    THEN Returned(result.message,
                  [success |-> FALSE, message |-> result.message,
                   changelog |-> None, source |-> Some("github")])
    ELSE Returned(result.message \o MsgHeadingPrefix
                      \o result.changelog[1].version \o <<NL, NL>>
                      \o result.changelog[1].content,
                  [success |-> TRUE, message |-> result.message,
                   changelog |-> result.changelog,
                   source |-> Some("github")])

\* Lines 286-307: the lookup in the fetched document.
githubReturn(result) ==
    IF ~result.success \/ result.changelog = None
    THEN Returned(result.message,
                  [success |-> FALSE, message |-> result.message,
                   changelog |-> None, source |-> Some("github")])
    ELSE Returned(result.message \o MsgFromGitHub \o MsgHeadingPrefix
                      \o result.changelog[1].version \o <<NL, NL>>
                      \o result.changelog[1].content,
                  [success |-> TRUE,
                   message |-> result.message \o MsgFromGitHub,
                   changelog |-> result.changelog,
                   source |-> Some("github")])

githubLookupResult(content, version) ==
    githubReturn(findChangelogEntry(content, Some(version)))

\* Lines 328-345: the result of the lookup in the local document.
localReturn(result) ==
    IF ~result.success \/ result.changelog = None
    THEN Returned(result.message,
                  [success |-> FALSE, message |-> result.message,
                   changelog |-> None, source |-> None])
    ELSE Returned(result.message \o MsgHeadingPrefix
                      \o result.changelog[1].version \o <<NL, NL>>
                      \o result.changelog[1].content,
                  [success |-> TRUE, message |-> result.message,
                   changelog |-> result.changelog,
                   source |-> Some("local")])

\* localResult with a catch clause that reports the failure without the
\* message of the exception.
localResultDropsCause(version) ==
    IF localChangelog.kind = "unreadable"
    THEN Returned(MsgErrorReadingPi,
                  [success |-> FALSE, message |-> MsgErrorReadingPi,
                   changelog |-> None, source |-> None])
    ELSE IF localChangelog.kind = "missing"
    THEN Returned(MsgNotLocated,
                  [success |-> FALSE, message |-> MsgNotLocated,
                   changelog |-> None, source |-> None])
    ELSE localReturn(findChangelogEntry(localChangelog.content, version))

\* Lines 311-345 and, for a read that throws, the catch of lines 346-352.
localResult(version) ==
    IF localChangelog.kind = "unreadable"
    THEN Returned(MsgErrorReadingPi \o ReadErrorMessage,
                  [success |-> FALSE,
                   message |-> MsgErrorReadingPi \o ReadErrorMessage,
                   changelog |-> None, source |-> None])
    ELSE IF localChangelog.kind = "missing"
    THEN Returned(MsgNotLocated,
                  [success |-> FALSE, message |-> MsgNotLocated,
                   changelog |-> None, source |-> None])
    ELSE localReturn(findChangelogEntry(localChangelog.content, version))

\* The call once it has returned r.
Done(call, r) == [call EXCEPT !.pc = "done", !.text = r.text, !.details = r.details]

\* The call continued with a null or empty githubContent, but falling back
\* to the local changelog instead of reporting the failed fetch.
fallBackToLocal(call, githubContent) ==
    IF githubContent = None \/ githubContent[1] = <<>>
    THEN Done([call EXCEPT !.githubContent = githubContent,
                           !.readLocal = TRUE],
              localResult(call.version))
    ELSE Done([call EXCEPT !.githubContent = githubContent],
              githubLookupResult(githubContent[1], call.version[1]))

\* afterFetch reading the requested version from a place every invocation
\* writes: it sees the version of another invocation that has started.
afterFetchSharedVersion(call, githubContent) ==
    LET others == {c \in CallIds : /\ calls[c].pc # "idle"
                                   /\ calls[c] # call
                                   /\ Truthy(calls[c].version)}
        version == IF others = {} THEN call.version
                   ELSE calls[CHOOSE c \in others : TRUE].version
    IN  IF githubContent = None \/ githubContent[1] = <<>>
        THEN Done([call EXCEPT !.githubContent = githubContent],
                  fetchFailedResult(version[1]))
        ELSE Done([call EXCEPT !.githubContent = githubContent],
                  githubLookupResult(githubContent[1], version[1]))

\* afterFetch fetching again when it got no text instead of reporting the
\* failed fetch.
afterFetchRetrying(call, githubContent) ==
    IF githubContent = None \/ githubContent[1] = <<>>
    THEN [call EXCEPT !.pc = "awaitFetch"]
    ELSE Done([call EXCEPT !.githubContent = githubContent],
              githubLookupResult(githubContent[1], call.version[1]))

\* Lines 271-307: the call continued with the value fetchGithubChangelog
\* resolved to (null, or the text of the response).
afterFetch(call, githubContent) ==
    IF githubContent = None \/ githubContent[1] = <<>>
    THEN Done([call EXCEPT !.githubContent = githubContent],
              fetchFailedResult(call.version[1]))
    ELSE Done([call EXCEPT !.githubContent = githubContent],
              githubLookupResult(githubContent[1], call.version[1]))

Init ==
    /\ changelogContent = <<>>
    /\ op = "none"
    /\ requestedVersion = None
    /\ parsed = <<>>
    /\ found = NoResult
    /\ listed = NoListing
    /\ VERSION \in InstalledVersions
    /\ newer = FALSE
    /\ localChangelog \in LocalChangelogs
    /\ githubChangelog \in ToolDocs
    /\ calls = [c \in CallIds |-> IdleCall]
    /\ versionsCall = IdleVersionsCall
    /\ candidate = <<>>
    /\ matched = NoMatchResult
    /\ newerSwapped = FALSE
    /\ piInstallation = NoInstallation
    /\ docsResult = NoDocsResult

\* Execute fetching the remote document for every requested version,
\* whether newer than the installed one or not.
ExecuteAlwaysFetching(c) ==
    \E version \in Requests :
        /\ calls[c].pc = "idle"
        /\ calls' =
               [calls EXCEPT ![c] =
                   IF Truthy(version)
                   THEN [@ EXCEPT !.pc = "awaitFetch", !.version = version,
                                  !.fetched = TRUE]
                   ELSE Done([@ EXCEPT !.version = version,
                                       !.readLocal = TRUE],
                             localResult(version))]
        /\ UNCHANGED <<changelogContent, op, requestedVersion, parsed, found,
                       listed, VERSION, newer, localChangelog, githubChangelog,
                       otherVars>>

\* pi_changelog.execute up to its first await or, on the local path, to
\* its return (lines 267-270 and 310-352).
Execute(c) ==
    \E version \in Requests :
        /\ calls[c].pc = "idle"
        /\ calls' =
               [calls EXCEPT ![c] =
                   IF Truthy(version)
                          /\ isNewerThanInstalled(version[1], VERSION)
                   THEN [@ EXCEPT !.pc = "awaitFetch", !.version = version,
                                  !.fetched = TRUE]
                   ELSE Done([@ EXCEPT !.version = version,
                                       !.readLocal = TRUE],
                             localResult(version))]
        /\ UNCHANGED <<changelogContent, op, requestedVersion, parsed, found,
                       listed, VERSION, newer, localChangelog, githubChangelog,
                   otherVars>>

\* fetch rejects: fetchGithubChangelog catches and resolves to null.
FetchRejects(c) ==
    /\ calls[c].pc = "awaitFetch"
    /\ calls' = [calls EXCEPT ![c] = afterFetch(@, None)]
    /\ UNCHANGED <<changelogContent, op, requestedVersion, parsed, found,
                   listed, VERSION, newer, localChangelog, githubChangelog,
                   otherVars>>

\* fetch resolves to a response; when it is not ok fetchGithubChangelog
\* resolves to null, otherwise it awaits res.text().
FetchResponds(c) ==
    \E ok \in BOOLEAN :
        /\ calls[c].pc = "awaitFetch"
        /\ calls' = [calls EXCEPT ![c] =
                        IF ok THEN [@ EXCEPT !.pc = "awaitText"]
                        ELSE afterFetch(@, None)]
        /\ UNCHANGED <<changelogContent, op, requestedVersion, parsed, found,
                       listed, VERSION, newer, localChangelog, githubChangelog,
                   otherVars>>

\* res.text() resolves to the remote document.
TextResolves(c) ==
    /\ calls[c].pc = "awaitText"
    /\ calls' = [calls EXCEPT ![c] = afterFetch(@, Some(githubChangelog))]
    /\ UNCHANGED <<changelogContent, op, requestedVersion, parsed, found,
                   listed, VERSION, newer, localChangelog, githubChangelog,
                   otherVars>>

\* res.text() rejects: fetchGithubChangelog catches and resolves to null.
TextRejects(c) ==
    /\ calls[c].pc = "awaitText"
    /\ calls' = [calls EXCEPT ![c] = afterFetch(@, None)]
    /\ UNCHANGED <<changelogContent, op, requestedVersion, parsed, found,
                   listed, VERSION, newer, localChangelog, githubChangelog,
                   otherVars>>

\* pi_changelog_versions.execute (lines 466-514); it has no await.
VersionsExecute ==
    /\ listed' =
           IF localChangelog.kind = "unreadable"
           THEN [text     |-> MsgErrorReading \o ReadErrorMessage,
                 success  |-> FALSE,
                 message  |-> MsgErrorReading \o ReadErrorMessage,
                 versions |-> None,
                 source   |-> None]
           ELSE IF localChangelog.kind = "missing"
           THEN [text     |-> MsgNotLocated,
                 success  |-> FALSE,
                 message  |-> MsgNotLocated,
                 versions |-> None,
                 source   |-> None]
           ELSE listVersions(localChangelog.content)
    /\ versionsCall' = [pc |-> "done", readLocal |-> TRUE, fetched |-> FALSE]
    /\ UNCHANGED <<changelogContent, op, requestedVersion, parsed, found,
                   VERSION, newer, localChangelog, githubChangelog, calls,
                   candidate, matched, newerSwapped, piInstallation,
                   docsResult>>

Next ==
    \/ \E c \in CallIds : Execute(c)
    \/ \E c \in CallIds : FetchRejects(c)
    \/ \E c \in CallIds : FetchResponds(c)
    \/ \E c \in CallIds : TextResolves(c)
    \/ \E c \in CallIds : TextRejects(c)
    \/ VersionsExecute

Spec == Init /\ [][Next]_vars

\* The promises awaited in fetchGithubChangelog settle: a pending fetch
\* resolves or rejects, and so does a pending res.text(), after which the
\* event loop runs the continuation of the invocation.
FairSpec ==
    /\ Spec
    /\ \A c \in CallIds :
           /\ WF_vars(FetchRejects(c) \/ FetchResponds(c))
           /\ WF_vars(TextRejects(c) \/ TextResolves(c))

(***************************************************************************)
(* The find predicate and the swapped comparison on drawn strings          *)
(***************************************************************************)

\* Requests and entry versions the predicate is tried on: with no, one and
\* two leading "v", a "v" elsewhere, a capital "V", and the empty string.
MatchStrings ==
    { <<>>, <<"v">>, <<"v", "v">>,
      <<"1", ".", "0">>, <<"v", "1", ".", "0">>, <<"v", "v", "1", ".", "0">>,
      <<"1", ".", "0", ".", "0">>, <<"v", "1", ".", "0", ".", "0">>,
      <<"V", "1", ".", "0">>, <<"1", ".", "0", "v">>,
      <<"2", ".", "0">>, <<"v", "2", ".", "0">> }

InitMatch ==
    /\ changelogContent = <<>>
    /\ op = "none"
    /\ requestedVersion = None
    /\ parsed = <<>>
    /\ found = NoResult
    /\ listed = NoListing
    /\ VERSION = DefaultVersion
    /\ newer = FALSE
    /\ localChangelog = NoLocalChangelog
    /\ githubChangelog = <<>>
    /\ calls = [c \in CallIds |-> IdleCall]
    /\ versionsCall = IdleVersionsCall
    /\ candidate = <<>>
    /\ matched = NoMatchResult
    /\ newerSwapped = FALSE
    /\ piInstallation = NoInstallation
    /\ docsResult = NoDocsResult

\* The predicate of lines 132-135 on an entry whose version is version.
Match ==
    \E requested \in MatchStrings, version \in MatchStrings :
        /\ op = "none"
        /\ op' = "match"
        /\ requestedVersion' = Some(requested)
        /\ candidate' = version
        /\ matched' = matchAlternatives([version |-> version], requested)
        /\ UNCHANGED <<changelogContent, parsed, found, listed, VERSION,
                       newer, localChangelog, githubChangelog, calls,
                       versionsCall, newerSwapped, piInstallation,
                       docsResult>>

NextMatch == Match

SpecMatch == InitMatch /\ [][NextMatch]_vars

\* isNewerThanInstalled(requested) where VERSION is installed, and
\* isNewerThanInstalled(VERSION) where requested is installed.
CompareBothWays ==
    \E requested \in VersionStrings :
        /\ op = "none"
        /\ op' = "compare"
        /\ requestedVersion' = Some(requested)
        /\ newer' = isNewerThanInstalled(requested, VERSION)
        /\ newerSwapped' = isNewerThanInstalled(VERSION, requested)
        /\ UNCHANGED <<changelogContent, parsed, found, listed, VERSION,
                       localChangelog, githubChangelog, calls, versionsCall,
                       candidate, matched, piInstallation, docsResult>>

NextSwapped == CompareBothWays

SpecSwapped == InitNewer /\ [][NextSwapped]_vars

(***************************************************************************)
(* pi_docs.execute (src/tools/docs-tool.ts)                                *)
(***************************************************************************)

\* A directory as existsSync and readdirSync see it: missing, present but
\* not readable (readdirSync throws), or present with its entries in the
\* order readdirSync returns them.  An entry is a file or a directory.
NoDir == [kind |-> "missing", entries |-> <<>>]

UnreadableDir == [kind |-> "unreadable", entries |-> <<>>]

Dir(entries) == [kind |-> "dir", entries |-> entries]

File(name) == [name |-> name, isDirectory |-> FALSE, entries |-> <<>>]

SubDir(name, entries) ==
    [name |-> name, isDirectory |-> TRUE, entries |-> entries]

\* s.endsWith(suffix)
endsWith(s, suffix) ==
    /\ Len(s) >= Len(suffix)
    /\ SubSeq(s, Len(s) - Len(suffix) + 1, Len(s)) = suffix

\* ".md"
MdSuffix == <<".", "m", "d">>

\* The for loop of listFilesRecursive (lines 34-41) over entries; the
\* recursive call lists the entries of a sub-directory under rel.
RECURSIVE listEntries(_, _)
listEntries(entries, prefix) ==
    IF entries = <<>> THEN <<>>
    ELSE LET entry == Head(entries)
             rel == IF prefix # <<>> THEN prefix \o <<"/">> \o entry.name
                    ELSE entry.name
         IN  (IF entry.isDirectory THEN listEntries(entry.entries, rel)
              ELSE <<rel>>)
                 \o listEntries(Tail(entries), prefix)

\* listFilesRecursive(dir) for a directory that is missing or readable.
listFilesRecursive(dir) ==
    IF dir.kind = "missing" THEN <<>> ELSE listEntries(dir.entries, <<>>)

\* Lines 88-94 and 96-102: the markdown files of the directory name.
markdownFiles(dir, name) ==
    LET files == SelectSeq(listFilesRecursive(dir),
                           LAMBDA f : endsWith(f, MdSuffix))
    IN  [i \in 1..Len(files) |-> name \o <<"/">> \o files[i]]

\* "README.md"
ReadmeName == <<"R","E","A","D","M","E",".","m","d">>

\* "docs"
DocsName == <<"d", "o", "c", "s">>

\* "examples"
ExamplesName == <<"e", "x", "a", "m", "p", "l", "e", "s">>

\* Lines 82-102: docFiles.
docFilesOf(inst) ==
    (IF inst.readme THEN <<ReadmeName>> ELSE <<>>)
        \o markdownFiles(inst.docs, DocsName)
        \o markdownFiles(inst.examples, ExamplesName)

\* "Could not locate running Pi installation directory"
MsgNoInstallation ==
    <<"C","o","u","l","d"," ","n","o","t"," ","l","o","c","a","t","e"," ",
      "r","u","n","n","i","n","g"," ","P","i"," ","i","n","s","t","a","l",
      "l","a","t","i","o","n"," ","d","i","r","e","c","t","o","r","y">>

\* "No markdown documentation found in Pi installation"
MsgNoMarkdown ==
    <<"N","o"," ","m","a","r","k","d","o","w","n"," ","d","o","c","u","m",
      "e","n","t","a","t","i","o","n"," ","f","o","u","n","d"," ","i","n",
      " ","P","i"," ","i","n","s","t","a","l","l","a","t","i","o","n">>

\* " markdown files:\n"
MsgMarkdownFilesColon ==
    <<" ","m","a","r","k","d","o","w","n"," ","f","i","l","e","s",":","\n">>

\* " markdown files"
MsgMarkdownFiles ==
    <<" ","m","a","r","k","d","o","w","n"," ","f","i","l","e","s">>

\* "Error reading Pi documentation: "
MsgErrorReadingDocs ==
    <<"E","r","r","o","r"," ","r","e","a","d","i","n","g"," ","P","i"," ",
      "d","o","c","u","m","e","n","t","a","t","i","o","n",":"," ">>

\* `${path.join(piPath, rel)} (${rel})`
docLine(piPath, rel) ==
    piPath \o <<"/">> \o rel \o <<" ", "(">> \o rel \o <<")">>

\* Lines 104-134 for the docFiles collected.
docsReturn(piPath, docFiles) ==
    IF Len(docFiles) = 0
    THEN [pc |-> "done", text |-> MsgNoMarkdown, success |-> FALSE,
          message |-> MsgNoMarkdown, docFiles |-> None,
          installPath |-> Some(piPath)]
    ELSE [pc |-> "done",
          text |-> toDecimal(Len(docFiles)) \o MsgMarkdownFilesColon
                       \o join([i \in 1..Len(docFiles) |->
                                   docLine(piPath, docFiles[i])], <<NL>>),
          success |-> TRUE,
          message |-> MsgFoundCount \o toDecimal(Len(docFiles))
                          \o MsgMarkdownFiles,
          docFiles |-> Some(docFiles),
          installPath |-> Some(piPath)]

\* pi_docs.execute (lines 61-144) on the installation inst; readdirSync
\* throwing on a directory that exists ends in the catch clause.
docsExecute(inst) ==
    IF inst.piPath = None
    THEN [pc |-> "done", text |-> MsgNoInstallation, success |-> FALSE,
          message |-> MsgNoInstallation, docFiles |-> None,
          installPath |-> None]
    ELSE IF inst.docs.kind = "unreadable" \/ inst.examples.kind = "unreadable"
    THEN [pc |-> "done", text |-> MsgErrorReadingDocs \o ReadErrorMessage,
          success |-> FALSE,
          message |-> MsgErrorReadingDocs \o ReadErrorMessage,
          docFiles |-> None, installPath |-> None]
    ELSE docsReturn(inst.piPath[1], docFilesOf(inst))

\* "/pi"
PiPath == <<"/", "p", "i">>

GuideMd == File(<<"g","u","i","d","e",".","m","d">>)

LogoPng == File(<<"l","o","g","o",".","p","n","g">>)

ToolsMd == File(<<"t","o","o","l","s",".","m","d">>)

SchemaJson == File(<<"s","c","h","e","m","a",".","j","s","o","n">>)

DemoTs == File(<<"d","e","m","o",".","t","s">>)

ReadmeMd == File(ReadmeName)

\* "api"
ApiName == <<"a", "p", "i">>

\* "hooks"
HooksName == <<"h", "o", "o", "k", "s">>

\* The docs/ directories of the installations looked at.
DocsDirs ==
    { NoDir, UnreadableDir, Dir(<<>>), Dir(<<GuideMd>>), Dir(<<LogoPng>>),
      Dir(<<GuideMd, LogoPng>>),
      Dir(<<SubDir(ApiName, <<ToolsMd, SchemaJson>>), GuideMd>>) }

\* The examples/ directories of the installations looked at.
ExamplesDirs ==
    { NoDir, UnreadableDir, Dir(<<>>), Dir(<<DemoTs>>),
      Dir(<<DemoTs, ReadmeMd>>),
      Dir(<<SubDir(HooksName, <<ReadmeMd, DemoTs>>)>>) }

Installations ==
    [piPath : {None, Some(PiPath)}, readme : BOOLEAN, docs : DocsDirs,
     examples : ExamplesDirs]

InitDocs ==
    /\ changelogContent = <<>>
    /\ op = "none"
    /\ requestedVersion = None
    /\ parsed = <<>>
    /\ found = NoResult
    /\ listed = NoListing
    /\ VERSION = DefaultVersion
    /\ newer = FALSE
    /\ localChangelog = NoLocalChangelog
    /\ githubChangelog = <<>>
    /\ calls = [c \in CallIds |-> IdleCall]
    /\ versionsCall = IdleVersionsCall
    /\ candidate = <<>>
    /\ matched = NoMatchResult
    /\ newerSwapped = FALSE
    /\ piInstallation \in Installations
    /\ docsResult = NoDocsResult

\* pi_docs.execute; it has no await.
DocsExecute ==
    /\ docsResult.pc = "idle"
    /\ docsResult' = docsExecute(piInstallation)
    /\ UNCHANGED <<changelogContent, op, requestedVersion, parsed, found,
                   listed, VERSION, newer, localChangelog, githubChangelog,
                   calls, versionsCall, candidate, matched, newerSwapped,
                   piInstallation>>

NextDocs == DocsExecute

SpecDocs == InitDocs /\ [][NextDocs]_vars

(***************************************************************************)
(* Properties                                                              *)
(***************************************************************************)

\* needle occurs in hay as a contiguous run of characters.
Contains(hay, needle) ==
    \E i \in 0..(Len(hay) - Len(needle)) :
        SubSeq(hay, i + 1, i + Len(needle)) = needle

\* The {version, content} pair of an entry.
Pair(e) == [version |-> e.version, content |-> e.content]

\* The indices of the entries whose version equals v once one leading "v"
\* is dropped on both sides.
SameVersion(entries, v) ==
    {i \in 1..Len(entries) : normalize(entries[i].version) = normalize(v)}

TextFixedBug == <<"F","i","x","e","d"," ","b","u","g">>

TextInitialRelease == <<"I","n","i","t","i","a","l"," ","r","e","l","e","a","s","e">>

V100 == <<"1",".","0",".","0">>

V090 == <<"0",".","9",".","0">>

V200 == <<"2",".","0",".","0">>

\* C1 as stated: parsing the example document yields the entries
\* {1.0.0, "Fixed bug"} and {0.9.0, "Initial release"}, in this order.
C1_ExampleAsStated ==
    (op = "parse" /\ changelogContent = ExampleDoc) =>
        /\ Len(parsed) = 2
        /\ Pair(parsed[1]) = [version |-> V100, content |-> TextFixedBug]
        /\ Pair(parsed[2]) = [version |-> V090, content |-> TextInitialRelease]

\* C1 amended: parsing the example document yields two entries, 1.0.0 and
\* 0.9.0 in this order; the content of 0.9.0 is "Initial release" and the
\* content of 1.0.0 is the empty-entry placeholder, its body "Fixed bug"
\* having 9 characters, fewer than the threshold of 10.
C1_ExampleParsed ==
    (op = "parse" /\ changelogContent = ExampleDoc) =>
        /\ Len(parsed) = 2
        /\ Pair(parsed[1]) =
               [version |-> V100, content |-> EmptyEntryPlaceholder]
        /\ Pair(parsed[2]) = [version |-> V090, content |-> TextInitialRelease]

C1_Witness ==
    op = "parse" /\ changelogContent = ExampleDoc /\ Len(parsed) = 2

\* "GitHub fetch failed"
TextFetchFailed ==
    <<"G","i","t","H","u","b"," ","f","e","t","c","h"," ","f","a","i","l",
      "e","d">>

\* " not found. "
TextNotFound ==
    <<" ","n","o","t"," ","f","o","u","n","d","."," ">>

\* An invocation that has started with a requested version newer than the
\* installed one.
AskedNewer(call) ==
    /\ call.pc # "idle"
    /\ Truthy(call.version)
    /\ isNewerThanInstalled(call.version[1], VERSION)

\* The fetch gave the invocation no text: null, or an empty body.
NoRemoteText(call) ==
    call.githubContent = None \/ call.githubContent[1] = <<>>

C3_NormalizationLaw ==
    (op = "find" /\ Truthy(requestedVersion)) =>
        \A i \in 1..Len(parsed) :
            LET X == parsed[i].version
                forms == {X, normalize(X)} \cup
                             (IF X[1] # "v" THEN {<<"v">> \o X} ELSE {})
            IN  requestedVersion[1] \in forms =>
                    /\ found.success
                    /\ found.changelog =
                           Some(Pair(parsed[Min(SameVersion(parsed, X))]))

C3_Witness ==
    /\ op = "find"
    /\ requestedVersion = Some(<<"v">> \o V090)
    /\ \E i \in 1..Len(parsed) : parsed[i].version = V090
    /\ found.success

\* A number list padded with zeros to length n.
Padded(parts, n) == [i \in 1..n |-> IF i <= Len(parts) THEN parts[i] ELSE 0]

\* Left-to-right comparison of two number lists after padding the shorter
\* with zeros: a is greater at the first position where they differ.
LexGreater(a, b) ==
    LET n == Max({Len(a), Len(b)})
        pa == Padded(a, n)
        pb == Padded(b, n)
    IN  \E i \in 1..n : pa[i] > pb[i] /\ \A j \in 1..(i - 1) : pa[j] = pb[j]

IsNumeral(c) == c # <<>> /\ \A i \in 1..Len(c) : c[i] \in Digits

\* The components of a version string, its leading v dropped.
ComponentsOf(v) == split(normalize(v), ".")

\* The components as numbers, a component that is no numeral counting 0.
ZeroCoerced(v) ==
    LET cs == ComponentsOf(v)
    IN  [i \in 1..Len(cs) |->
            IF IsNumeral(cs[i]) THEN radixValue(cs[i], 10) ELSE 0]

AllNumeric(v) ==
    \A i \in 1..Len(ComponentsOf(v)) : IsNumeral(ComponentsOf(v)[i])

\* C4 as stated: isNewer equals the left-to-right comparison of the
\* component lists with every non-numeric component replaced by 0 and the
\* shorter list padded with 0.
C4_NonNumericCountsAsZero ==
    op = "isNewer" =>
        (newer <=> LexGreater(ZeroCoerced(requestedVersion[1]),
                              ZeroCoerced(VERSION)))

\* C5: for versions whose components are all non-negative integers,
\* isNewer is true exactly when the requested component list, padded with
\* zeros, is lexicographically greater than the installed one; the four
\* named pairs come out as stated.
C5_NumericOrder ==
    op = "isNewer" =>
        /\ (AllNumeric(requestedVersion[1]) /\ AllNumeric(VERSION)) =>
               (newer <=> LexGreater(ZeroCoerced(requestedVersion[1]),
                                     ZeroCoerced(VERSION)))
        /\ (requestedVersion[1] = V200
               /\ VERSION = <<"1", ".", "9", ".", "9">>) => newer
        /\ (requestedVersion[1] = <<"1", ".", "2">>
               /\ VERSION = <<"1", ".", "2", ".", "1">>) => ~newer
        /\ (requestedVersion[1] = <<"v">> \o V200 /\ VERSION = V100) => newer
        /\ (requestedVersion[1] = <<"1", ".", "0">> /\ VERSION = V100) => ~newer

C5_Witness ==
    /\ op = "isNewer"
    /\ requestedVersion[1] = <<"1", ".", "2", ".", "1">>
    /\ VERSION = <<"1", ".", "2">>
    /\ newer

\* C6: isNewer(a, a) is false for every version string a.
C6_Irreflexive ==
    (op = "isNewer" /\ requestedVersion[1] = VERSION) => ~newer

C6_Witness ==
    /\ op = "isNewer"
    /\ requestedVersion[1] = VERSION
    /\ VERSION = <<"v", "1", ".", "x">>
    /\ ~newer

\* A line that starts with "#" (white space aside) and carries a dotted
\* number: a digit, a dot and a digit in a row.
HashLineWithDottedNumber(line) ==
    LET t == trim(line)
    IN  /\ Len(t) > 0
        /\ t[1] = "#"
        /\ \E i \in 1..(Len(t) - 2) :
               t[i] \in Digits /\ t[i + 1] = "." /\ t[i + 2] \in Digits

NoVersionHeading(content) ==
    \A i \in 1..Len(split(content, NL)) :
        ~HashLineWithDottedNumber(split(content, NL)[i])

\* C7: for a document without version heading, parse returns the empty
\* list, findEntry fails with the no-entries message whether or not a
\* version is requested, and the listing fails instead of returning an
\* empty list.
C7_NoEntries ==
    NoVersionHeading(changelogContent) =>
        /\ op \in {"parse", "find", "list"} => Len(parsed) = 0
        /\ op = "find" =>
               /\ ~found.success
               /\ found.changelog = None
               /\ found.message = MsgNoEntries
        /\ op = "list" =>
               /\ ~listed.success
               /\ listed.versions = None
               /\ listed.message = MsgNoEntriesInChangelog

C7_Witness ==
    /\ op = "list"
    /\ NoVersionHeading(changelogContent)
    /\ Contains(changelogContent, <<"#", "#", " ", "U", "n">>)
    /\ ~listed.success

\* C8: on a non-empty parsed changelog, findEntry without a requested
\* version succeeds with the entry at index 0 and the message "Latest
\* changelog entry: " followed by that entry's version.
C8_LatestIsFirst ==
    (op = "find" /\ requestedVersion = None /\ Len(parsed) > 0) =>
        /\ found.success
        /\ found.changelog = Some(Pair(parsed[1]))
        /\ found.message = MsgLatest \o parsed[1].version

\* The first entry is 0.9.0 and a later one is 1.0.0, numerically greater.
C8_Witness ==
    /\ op = "find"
    /\ requestedVersion = None
    /\ Len(parsed) > 1
    /\ parsed[1].version = V090
    /\ parsed[2].version = V100
    /\ found.changelog = Some(Pair(parsed[1]))

\* C9: when entries match the requested version, findEntry returns the
\* matching entry that comes first in the document, and the message is
\* "Found changelog for version " followed by that entry's stored version.
C9_FirstMatchWins ==
    (op = "find" /\ Truthy(requestedVersion)
        /\ SameVersion(parsed, requestedVersion[1]) # {}) =>
        LET first == parsed[Min(SameVersion(parsed, requestedVersion[1]))]
        IN  /\ found.success
            /\ found.changelog = Some(Pair(first))
            /\ found.message = MsgFound \o first.version

\* Two entries match, with different contents, and the first one stores the
\* version with a "v" the request does not have.
C9_Witness ==
    /\ op = "find"
    /\ requestedVersion = Some(V100)
    /\ Cardinality(SameVersion(parsed, V100)) >= 2
    /\ Len(parsed) = 2
    /\ parsed[1].version = <<"v">> \o V100
    /\ parsed[1].content # parsed[2].content
    /\ found.message = MsgFound \o <<"v">> \o V100

\* "Available: "
TextAvailable ==
    <<"A","v","a","i","l","a","b","l","e",":"," ">>

\* "Available: 1.0.0, 0.9.0"
TextAvailableExample ==
    <<"A","v","a","i","l","a","b","l","e",":"," ","1",".","0",".","0",",",
      " ","0",".","9",".","0">>

\* C10: when the requested version matches no entry of a non-empty parsed
\* changelog, findEntry fails, attaches no entry, and its message contains
\* "Available: " followed by every parsed version in document order,
\* joined by ", "; for the example document and request 2.0.0 it contains
\* "Available: 1.0.0, 0.9.0".
C10_NotFoundListsVersions ==
    (op = "find" /\ Truthy(requestedVersion) /\ Len(parsed) > 0
        /\ SameVersion(parsed, requestedVersion[1]) = {}) =>
        /\ ~found.success
        /\ found.changelog = None
        /\ Contains(found.message,
               TextAvailable \o
                   join([i \in 1..Len(parsed) |-> parsed[i].version],
                        <<",", " ">>))
        /\ (changelogContent = ExampleDoc /\ requestedVersion = Some(V200)) =>
               Contains(found.message, TextAvailableExample)

C10_Witness ==
    /\ op = "find"
    /\ changelogContent = ExampleDoc
    /\ requestedVersion = Some(V200)
    /\ ~found.success
    /\ Contains(found.message, TextAvailableExample)

(***************************************************************************)
(* Properties of the parser, stated on the lines of the document           *)
(***************************************************************************)

\* parseChangelogEntries(changelogContent) has returned parsed.
Parsed == op = "parse"

DocLines == split(changelogContent, NL)

\* The heading token of a line as the design describes it, white space
\* after the "#" run being optional: the text between "[" and the next "]",
\* or the run of characters up to white space or "[".  <<>>: no token.
HeadingToken(line) ==
    LET t == trim(line)
        h == RunLength(t, {"#"})
        a == SubSeq(t, h + 1, Len(t))
        r == SubSeq(a, RunLength(a, WhiteSpace) + 1, Len(a))
    IN  IF h = 0 \/ r = <<>> THEN <<>>
        ELSE IF r[1] = "["
        THEN IF \E i \in 2..Len(r) : r[i] = "]"
             THEN SubSeq(r, 2, Min({i \in 2..Len(r) : r[i] = "]"}) - 1)
             ELSE <<>>
        ELSE SubSeq(r, 1, Min({i \in 1..(Len(r) + 1) :
                                 i = Len(r) + 1 \/ r[i] = "["
                                     \/ r[i] \in WhiteSpace}) - 1)

\* An optional "v", one or more digits, a dot and a digit start the token.
StartsLikeVersion(t) ==
    \E v \in {0, 1} : \E d \in 1..Len(t) :
        /\ v = 1 => t[1] = "v"
        /\ Len(t) >= v + d + 2
        /\ \A i \in (v + 1)..(v + d) : t[i] \in Digits
        /\ t[v + d + 1] = "."
        /\ t[v + d + 2] \in Digits

\* The positions (from 1) of the version heading lines of the document.
HeadingLines ==
    {i \in 1..Len(DocLines) : StartsLikeVersion(HeadingToken(DocLines[i]))}

\* The lines strictly between a heading line and the next version heading
\* line, or the end of the document.
SpanAfter(i) ==
    LET later == {j \in HeadingLines : j > i}
    IN  SubSeq(DocLines, i + 1,
               (IF later = {} THEN Len(DocLines) + 1 ELSE Min(later)) - 1)

\* The span of the k-th entry, located by the lineStart the parser stored.
SpanOf(k) == SpanAfter(parsed[k].lineStart + 1)

\* A line that repeats one of the characters - = * # and has nothing else.
IsDecorative(l) ==
    /\ l # <<>>
    /\ \E c \in {"-", "=", "*", "#"} : \A i \in 1..Len(l) : l[i] = c

IsBlank(l) == \A i \in 1..Len(l) : l[i] \in WhiteSpace

\* The body the emptiness test looks at: the span joined and trimmed, its
\* decorative lines emptied, trimmed again.
StrippedBody(spanLines) ==
    LET ls == split(trim(join(spanLines, <<NL>>)), NL)
    IN  trim(join([i \in 1..Len(ls) |->
                      IF IsDecorative(ls[i]) THEN <<>> ELSE ls[i]], <<NL>>))

\* a is b with some elements left out.
RECURSIVE IsSubsequence(_, _)
IsSubsequence(a, b) ==
    IF a = <<>> THEN TRUE
    ELSE IF b = <<>> THEN FALSE
    ELSE IF Head(a) = Head(b) THEN IsSubsequence(Tail(a), Tail(b))
    ELSE IsSubsequence(a, Tail(b))

Kept(k) == parsed[k].content # EmptyEntryPlaceholder

\* C11 as stated: the content of an entry whose body is not judged empty
\* is the untrimmed span text, the lines between the heading and the next
\* version heading joined by newlines, blank lines and white space at the
\* ends of the span included.
C11_ContentIsUntrimmedSpan ==
    Parsed =>
        \A k \in 1..Len(parsed) :
            Kept(k) => parsed[k].content = join(SpanOf(k), <<NL>>)

\* C11 amended: the content of an entry whose body is not judged empty is
\* the span text, the lines between the heading and the next version
\* heading joined by newlines, with the white space at its two ends
\* removed; what lies between its first and last non-blank character,
\* blank lines and indentation included, is stored unchanged.
C11_ContentIsTrimmedSpan ==
    Parsed =>
        \A k \in 1..Len(parsed) :
            Kept(k) => parsed[k].content = trim(join(SpanOf(k), <<NL>>))

\* "Added a tool\n\nMore notes"
TextPaddedBodyTrimmed ==
    <<"A","d","d","e","d"," ","a"," ","t","o","o","l","\n","\n","M","o","r",
      "e"," ","n","o","t","e","s">>

C11_Witness ==
    /\ op = "parse"
    /\ changelogContent = PaddedBodyDoc
    /\ Len(parsed) = 1
    /\ Len(SpanOf(1)) = 6
    /\ parsed[1].content = TextPaddedBodyTrimmed

\* C12: for an entry whose decoration-stripped body has at least 10
\* characters, the decorative separator lines of its span are all lines of
\* the stored content, in the same order.
C12_SeparatorsKept ==
    Parsed =>
        \A k \in 1..Len(parsed) :
            Len(StrippedBody(SpanOf(k))) >= MinContentLength =>
                IsSubsequence(SelectSeq(SpanOf(k), IsDecorative),
                              split(parsed[k].content, NL))

\* "---\nInitial release\n===\nMore"
TextDecoratedBody ==
    <<"-","-","-","\n","I","n","i","t","i","a","l"," ","r","e","l","e","a",
      "s","e","\n","=","=","=","\n","M","o","r","e">>

C12_Witness ==
    /\ op = "parse"
    /\ changelogContent = DecoratedDoc
    /\ Len(parsed) = 2
    /\ Len(SelectSeq(SpanOf(2), IsDecorative)) = 2
    /\ parsed[2].content = TextDecoratedBody

\* C13: the content of an entry is the empty-entry placeholder exactly
\* when its body, joined, trimmed, without its decorative lines and
\* trimmed again, has fewer than 10 characters (none included); a body of
\* 10 characters is kept and one of 9 is replaced.
C13_PlaceholderIffShort ==
    Parsed =>
        \A k \in 1..Len(parsed) :
            (parsed[k].content = EmptyEntryPlaceholder)
                <=> (Len(StrippedBody(SpanOf(k))) < 10)

TextFixedBugs == <<"F","i","x","e","d"," ","b","u","g","s">>

C13_Witness ==
    /\ op = "parse"
    /\ changelogContent = ThresholdDoc
    /\ Len(parsed) = 2
    /\ Len(StrippedBody(SpanOf(1))) = 10
    /\ parsed[1].content = TextFixedBugs
    /\ Len(StrippedBody(SpanOf(2))) = 9
    /\ parsed[2].content = EmptyEntryPlaceholder

\* The span has a decorative line and nothing but decorative and blank
\* lines.
OnlySeparators(spanLines) ==
    /\ \E i \in 1..Len(spanLines) : IsDecorative(spanLines[i])
    /\ \A i \in 1..Len(spanLines) :
           IsDecorative(spanLines[i]) \/ IsBlank(spanLines[i])

\* C14: an entry whose body is made of decorative separator lines only,
\* however many and however long, blank lines between them allowed, has
\* the empty-entry placeholder as content.
C14_SeparatorsOnlyIsEmpty ==
    Parsed =>
        \A k \in 1..Len(parsed) :
            OnlySeparators(SpanOf(k)) =>
                parsed[k].content = EmptyEntryPlaceholder

\* The body of 2.0.0 is "==========", a blank line, "***" and "#".
C14_Witness ==
    /\ op = "parse"
    /\ changelogContent = DecoratedDoc
    /\ Len(parsed) = 2
    /\ OnlySeparators(SpanOf(1))
    /\ Len(SpanOf(1)) = 4
    /\ Len(SpanOf(1)[1]) = 10
    /\ parsed[1].content = EmptyEntryPlaceholder

\* Whether the parser pushed an entry for line i (counted from 1).
EntryAtLine(i) == \E k \in 1..Len(parsed) : parsed[k].lineStart = i - 1

\* A line whose run of "#" is directly followed by a character that is no
\* white space.
Tight(line) ==
    LET t == trim(line)
        h == RunLength(t, {"#"})
    IN  h >= 1 /\ h < Len(t) /\ t[h + 1] \notin WhiteSpace

\* C15 as stated: a line without white space between its run of "#" and
\* the token ("#1.0.0", "##v2.1") produces no entry.
C15_TightHeadingIgnored ==
    Parsed =>
        \A i \in 1..Len(DocLines) : Tight(DocLines[i]) => ~EntryAtLine(i)

V21 == <<"v", "2", ".", "1">>

\* C15 amended: white space between the run of "#" and the token is
\* optional.  A line without it produces an entry exactly when its token
\* is version-shaped, the entry's version being that token ("#1.0.0" gives
\* version "1.0.0", "##v2.1" gives "v2.1"); a line that does not start with
\* "#" once trimmed produces none.
C15_WhitespaceOptional ==
    Parsed =>
        \A i \in 1..Len(DocLines) :
            /\ Tight(DocLines[i]) =>
                   (EntryAtLine(i)
                        <=> StartsLikeVersion(HeadingToken(DocLines[i])))
            /\ RunLength(trim(DocLines[i]), {"#"}) = 0 => ~EntryAtLine(i)
            /\ \A k \in 1..Len(parsed) :
                   (Tight(DocLines[i]) /\ parsed[k].lineStart = i - 1) =>
                       parsed[k].version = HeadingToken(DocLines[i])

C15_Witness ==
    /\ op = "parse"
    /\ changelogContent = TightHeadingsDoc
    /\ Tight(DocLines[1])
    /\ Tight(DocLines[3])
    /\ Len(parsed) = 2
    /\ parsed[1].version = V100
    /\ parsed[2].version = V21

\* "## Unreleased", "### Patch Changes", "## [Unreleased]", "# 1"
NonVersionHeadings ==
    { <<"#","#"," ","U","n","r","e","l","e","a","s","e","d">>,
      <<"#","#","#"," ","P","a","t","c","h"," ","C","h","a","n","g","e","s">>,
      <<"#","#"," ","[","U","n","r","e","l","e","a","s","e","d","]">>,
      <<"#"," ","1">> }

\* C16: a line produces an entry if and only if its heading token starts
\* with an optional "v", digits, a dot and a digit.  Headings whose token
\* is not version-shaped produce no entry and lie inside the span of the
\* entry before them: a span ends at a version heading or at the end of
\* the document only.
C16_OnlyVersionHeadings ==
    Parsed =>
        /\ \A i \in 1..Len(DocLines) :
               /\ EntryAtLine(i)
                      <=> StartsLikeVersion(HeadingToken(DocLines[i]))
               /\ DocLines[i] \in NonVersionHeadings => ~EntryAtLine(i)
        /\ \A k \in 1..Len(parsed) :
               /\ \A i \in (parsed[k].lineStart + 2)..parsed[k].lineEnd :
                      ~StartsLikeVersion(HeadingToken(DocLines[i]))
               /\ \/ parsed[k].lineEnd = Len(DocLines)
                  \/ StartsLikeVersion(
                         HeadingToken(DocLines[parsed[k].lineEnd + 1]))

V120 == <<"1", ".", "2", ".", "0">>

\* The entry of "## v1.2.0" spans "### Patch Changes", "## [Unreleased]" and
\* "# 1" and ends at "## [1.2.0] - date".
C16_Witness ==
    /\ op = "parse"
    /\ changelogContent = HeadingKindsDoc
    /\ Len(parsed) = 2
    /\ parsed[1].lineStart = 1
    /\ parsed[1].lineEnd = 6
    /\ \A i \in {3, 5, 6} : DocLines[i] \in NonVersionHeadings
    /\ Contains(parsed[1].content, <<"#"," ","1">>)
    /\ parsed[2].version = V120

\* The version heading lines in increasing order.
Heads == Ascending(HeadingLines)

\* The content the design gives to a span.
SpanContent(spanLines) ==
    IF Len(StrippedBody(spanLines)) < 10 THEN EmptyEntryPlaceholder
    ELSE trim(join(spanLines, <<NL>>))

\* "## 9.9"
OtherHeading == <<"#", "#", " ", "9", ".", "9">>

\* C17: the k-th entry starts at the k-th version heading line and ends at
\* the next one (the end of the document for the last); its content is
\* determined by the lines strictly between the two, and is what parsing a
\* document made of another heading and these lines alone gives: neither
\* the heading line, nor the lines of other entries, nor the lines before
\* the first version heading contribute.
C17_SpanBetweenHeadings ==
    Parsed =>
        /\ Len(parsed) = Len(Heads)
        /\ \A k \in 1..Len(parsed) :
               /\ parsed[k].lineStart = Heads[k] - 1
               /\ parsed[k].lineEnd =
                      (IF k < Len(Heads) THEN Heads[k + 1] - 1
                       ELSE Len(DocLines))
               /\ parsed[k].content = SpanContent(SpanAfter(Heads[k]))
               /\ parsed[k].content =
                      parseChangelogEntries(
                          join(<<OtherHeading>> \o SpanAfter(Heads[k]),
                               <<NL>>))[1].content

\* "### Patch Changes\n- fixed the parser\n## [Unreleased]\n# 1"
TextFirstSpan ==
    <<"#","#","#"," ","P","a","t","c","h"," ","C","h","a","n","g","e","s",
      "\n","-"," ","f","i","x","e","d"," ","t","h","e"," ","p","a","r","s",
      "e","r","\n","#","#"," ","[","U","n","r","e","l","e","a","s","e","d",
      "]","\n","#"," ","1">>

\* "Older release notes"
TextOlderNotes ==
    <<"O","l","d","e","r"," ","r","e","l","e","a","s","e"," ","n","o","t",
      "e","s">>

\* Text precedes the first heading and two entries follow one another.
C17_Witness ==
    /\ op = "parse"
    /\ changelogContent = HeadingKindsDoc
    /\ Heads = <<2, 7>>
    /\ parsed[1].content = TextFirstSpan
    /\ parsed[2].content = TextOlderNotes

\* "## v1.2.0"
LineV120 == <<"#","#"," ","v","1",".","2",".","0">>

\* "## [1.2.0] - date"
LineBracketed120 ==
    <<"#","#"," ","[","1",".","2",".","0","]"," ","-"," ","d","a","t","e">>

\* C18: the version of an entry is the token of its heading line as
\* written: a leading "v" is kept, none is added, and of a bracketed token
\* the text inside the brackets is taken ("## v1.2.0" gives "v1.2.0",
\* "## [1.2.0] - date" gives "1.2.0").
C18_VersionIsLiteralToken ==
    Parsed =>
        \A k \in 1..Len(parsed) :
            LET line == DocLines[parsed[k].lineStart + 1]
            IN  /\ parsed[k].version = HeadingToken(line)
                /\ Contains(line, parsed[k].version)
                /\ line = LineV120 => parsed[k].version = <<"v">> \o V120
                /\ line = LineBracketed120 => parsed[k].version = V120

C18_Witness ==
    /\ op = "parse"
    /\ changelogContent = HeadingKindsDoc
    /\ Len(parsed) = 2
    /\ DocLines[parsed[1].lineStart + 1] = LineV120
    /\ parsed[1].version = <<"v">> \o V120
    /\ DocLines[parsed[2].lineStart + 1] = LineBracketed120
    /\ parsed[2].version = V120

\* C19: parse returns one entry per version heading line, in the order of
\* the lines: the k-th entry belongs to the k-th version heading line, so
\* line indices increase strictly and nothing is sorted, merged or dropped,
\* a version carried by two headings giving two entries.
C19_OneEntryPerHeading ==
    Parsed =>
        /\ Len(parsed) = Cardinality(HeadingLines)
        /\ \A k \in 1..Len(parsed) :
               /\ parsed[k].lineStart + 1 \in HeadingLines
               /\ parsed[k].version
                      = HeadingToken(DocLines[parsed[k].lineStart + 1])
               /\ k > 1 => parsed[k - 1].lineStart < parsed[k].lineStart

\* The older 0.9.0 comes first and 1.0.0 appears twice.
C19_Witness ==
    /\ op = "parse"
    /\ Len(parsed) = 3
    /\ parsed[1].version = V090
    /\ parsed[2].version = V100
    /\ parsed[3].version = V100

\* C20: the listing of a non-empty parsed changelog succeeds and returns
\* the version of every entry, as many as there are entries and in their
\* order (1.0.0 then 0.9.0 for the example document); the listing fails
\* only when there is no entry.
C20_ListingProjectsVersions ==
    op = "list" =>
        /\ Len(parsed) > 0 =>
               /\ listed.success
               /\ listed.versions # None
               /\ Len(listed.versions[1]) = Len(parsed)
               /\ \A i \in 1..Len(parsed) :
                      listed.versions[1][i] = parsed[i].version
        /\ ~listed.success <=> Len(parsed) = 0
        /\ changelogContent = ExampleDoc =>
               listed.versions = Some(<<V100, V090>>)

C20_Witness ==
    /\ op = "list"
    /\ changelogContent = ExampleDoc
    /\ Len(parsed) = 2
    /\ listed.success
    /\ listed.versions = Some(<<V100, V090>>)

(***************************************************************************)
(* Properties of the tools                                                 *)
(***************************************************************************)

\* The call has returned a failure that is a proper result: a message, the
\* same text for the caller, and no entry.
FailureIsResult(call) ==
    /\ call.details.message # <<>>
    /\ call.text = call.details.message
    /\ call.details.changelog = None

ResultAlone(version, githubContent) ==
    IF Truthy(version) /\ isNewerThanInstalled(version[1], VERSION)
    THEN IF githubContent = None \/ githubContent[1] = <<>>
         THEN fetchFailedResult(version[1])
         ELSE githubLookupResult(githubContent[1], version[1])
    ELSE localResult(version)

\* C23: with two invocations interleaved at their awaits, each one that
\* has returned holds the result it returns when run alone with the same
\* version, the same documents and the same outcome of its fetch.
C23_NoInterference ==
    \A c \in CallIds :
        calls[c].pc = "done" =>
            Returned(calls[c].text, calls[c].details)
                = ResultAlone(calls[c].version, calls[c].githubContent)

\* One invocation, for 2.0.0, is suspended on the remote fetch and the
\* other, for 1.0.0, has gone through its own fetch and returned the entry
\* of 1.0.0.
C23_Witness ==
    /\ VERSION = V090
    /\ githubChangelog = DocWith200
    /\ calls["c1"].pc = "awaitText"
    /\ calls["c1"].version = Some(V200)
    /\ calls["c2"].pc = "done"
    /\ calls["c2"].version = Some(V100)
    /\ calls["c2"].githubContent = Some(DocWith200)
    /\ calls["c2"].details.success
    /\ calls["c2"].details.changelog[1].version = V100

\* Every file under a directory, with the directory's name in front.
AllFilesUnder(dir, name) ==
    LET files == listFilesRecursive(dir)
    IN  [i \in 1..Len(files) |-> name \o <<"/">> \o files[i]]

\* What the README of the extension says pi_docs lists: README.md when
\* present, the individual files of docs/, and the path of the examples/
\* directory.
DocumentedListing(inst) ==
    (IF inst.readme THEN <<ReadmeName>> ELSE <<>>)
        \o AllFilesUnder(inst.docs, DocsName)
        \o (IF inst.examples.kind = "dir" THEN <<ExamplesName>> ELSE <<>>)

\* C24: for an installation that is found and readable, pi_docs lists
\* README.md (when present), the individual files of docs/ and the path of
\* the examples/ directory.
C24_ListsAsDocumented ==
    (/\ docsResult.pc = "done"
     /\ piInstallation.piPath # None
     /\ piInstallation.docs.kind # "unreadable"
     /\ piInstallation.examples.kind # "unreadable"
     /\ DocumentedListing(piInstallation) # <<>>) =>
        docsResult.docFiles = Some(DocumentedListing(piInstallation))

\* C25: the match test accepts an entry version for a request exactly
\* when the two are equal once one leading "v" is removed from each; the
\* exact and the "v"-prefixed alternatives accept nothing that the
\* normalized alternative rejects.
C25_MatchIsNormalizedEquality ==
    op = "match" =>
        /\ matched.accepted
               <=> (normalize(candidate) = normalize(requestedVersion[1]))
        /\ matched.exact => matched.normalized
        /\ matched.prefixed => matched.normalized
        /\ matched.accepted
               <=> (matched.exact \/ matched.prefixed \/ matched.normalized)

\* The request "v1.0" against the entry version "1.0": only the normalized
\* alternative accepts.
C25_Witness ==
    /\ op = "match"
    /\ requestedVersion = Some(<<"v", "1", ".", "0">>)
    /\ candidate = <<"1", ".", "0">>
    /\ ~matched.exact
    /\ ~matched.prefixed
    /\ matched.normalized
    /\ matched.accepted

\* C29: for all version strings a and b, components that are no numbers
\* or are missing included, isNewer(a, b) and isNewer(b, a) are not both
\* true.
C29_Asymmetric ==
    op = "compare" => ~(newer /\ newerSwapped)

\* "1.x.5" against "1.2.0": the component that is no number is passed
\* over in both directions and the last one decides, one way only.
C29_Witness ==
    /\ op = "compare"
    /\ requestedVersion = Some(<<"1", ".", "x", ".", "5">>)
    /\ VERSION = <<"1", ".", "2", ".", "0">>
    /\ newer
    /\ ~newerSwapped

\* The lookup answered with the latest entry.
LatestSelected ==
    /\ found.success
    /\ found.message = MsgLatest \o parsed[1].version

\* The lookup answered that the version is not among the available ones.
NotFoundAnswer ==
    /\ ~found.success
    /\ found.changelog = None
    /\ Contains(found.message, MsgNotFoundAvailable)

\* C26 as stated: on a non-empty parsed changelog, only an absent
\* requested version selects the latest entry, and every supplied version
\* string that matches no entry, the empty string included, makes the
\* lookup fail with the not-found message.
C26_OnlyAbsentSelectsLatest ==
    (op = "find" /\ Len(parsed) > 0) =>
        /\ LatestSelected => requestedVersion = None
        /\ (requestedVersion # None
               /\ SameVersion(parsed, requestedVersion[1]) = {}) =>
               NotFoundAnswer

\* C26 amended: on a non-empty parsed changelog, the latest entry is
\* selected exactly when the requested version is absent or is the empty
\* string; every non-empty requested version string that matches no entry
\* makes the lookup fail with the not-found message listing the available
\* versions.
C26_AbsentOrEmptySelectsLatest ==
    (op = "find" /\ Len(parsed) > 0) =>
        /\ LatestSelected
               <=> (requestedVersion = None \/ requestedVersion = Some(<<>>))
        /\ LatestSelected => found.changelog = Some(Pair(parsed[1]))
        /\ (requestedVersion # None
               /\ requestedVersion # Some(<<>>)
               /\ SameVersion(parsed, requestedVersion[1]) = {}) =>
               /\ NotFoundAnswer
               /\ Contains(found.message,
                      join([i \in 1..Len(parsed) |-> parsed[i].version],
                           <<",", " ">>))

\* The empty string was requested and the first of two entries came back.
C26_Witness ==
    /\ op = "find"
    /\ requestedVersion = Some(<<>>)
    /\ Len(parsed) = 2
    /\ LatestSelected
    /\ found.changelog = Some(Pair(parsed[1]))

\* The invocation asked for no version (absent or empty) or for one that
\* is, component by component, not greater than the installed one.
AskedLatestOrNotNewer(call) ==
    \/ call.version = None
    \/ call.version = Some(<<>>)
    \/ ~LexGreater(ZeroCoerced(call.version[1]), ZeroCoerced(VERSION))

\* C27: an invocation of pi_changelog calls fetch or reads the local
\* changelog, never both; one that asks for no version or for a version
\* equal to or older than the installed one never fetches and answers from
\* the local changelog; pi_changelog_versions never fetches.
C27_AtMostOneSource ==
    /\ \A c \in CallIds :
           /\ ~(calls[c].fetched /\ calls[c].readLocal)
           /\ (calls[c].pc # "idle" /\ AskedLatestOrNotNewer(calls[c])) =>
                  /\ ~calls[c].fetched
                  /\ calls[c].readLocal
                  /\ calls[c].pc = "done"
                  /\ calls[c].githubContent = None
                  /\ calls[c].details.source # Some("github")
                  /\ calls[c].details.success =>
                         calls[c].details.source = Some("local")
    /\ versionsCall.pc = "done" =>
           /\ ~versionsCall.fetched
           /\ versionsCall.readLocal
           /\ listed.source # Some("github")

\* The installed version itself and no version were asked for, and the
\* versions were listed: all three answered from the local changelog,
\* whose entries differ from the remote ones.
C27_Witness ==
    /\ VERSION = V100
    /\ localChangelog = [kind |-> "readable", content |-> ExampleDoc]
    /\ githubChangelog = DocWith200
    /\ calls["c1"].pc = "done"
    /\ calls["c1"].version = Some(V100)
    /\ ~calls["c1"].fetched
    /\ calls["c1"].details.source = Some("local")
    /\ calls["c2"].pc = "done"
    /\ calls["c2"].version = None
    /\ ~calls["c2"].fetched
    /\ calls["c2"].details.source = Some("local")
    /\ versionsCall.pc = "done"
    /\ listed.versions = Some(<<V100, V090>>)

\* The invocation asked for a version that is, component by component,
\* greater than the installed one.
RequestedIsGreater(call) == ~AskedLatestOrNotNewer(call)

\* s ends with the characters of t.
HasSuffix(s, t) ==
    /\ Len(s) >= Len(t)
    /\ SubSeq(s, Len(s) - Len(t) + 1, Len(s)) = t

\* C28: every result pi_changelog returns is well formed: success is true
\* exactly when an entry is attached; a successful result has source
\* "github" exactly when the requested version was newer than the
\* installed one, its message then ending with " (from GitHub)", and
\* source "local" otherwise; a failure carries no entry.
C28_ResultsWellFormed ==
    \A c \in CallIds :
        calls[c].pc = "done" =>
            LET d == calls[c].details
            IN  /\ d.success <=> d.changelog # None
                /\ ~d.success => d.changelog = None
                /\ d.success =>
                       /\ d.source \in {Some("github"), Some("local")}
                       /\ d.source = Some("github") <=> RequestedIsGreater(calls[c])
                       /\ d.source = Some("github") =>
                              HasSuffix(d.message, MsgFromGitHub)

\* One invocation answered a newer version from the remote document, the
\* other the installed one from the local changelog.
C28_Witness ==
    /\ VERSION = V100
    /\ calls["c1"].pc = "done"
    /\ calls["c1"].version = Some(<<"2", ".", "0", ".", "0">>)
    /\ calls["c1"].details.success
    /\ calls["c1"].details.source = Some("github")
    /\ calls["c2"].pc = "done"
    /\ calls["c2"].version = Some(V100)
    /\ calls["c2"].details.success
    /\ calls["c2"].details.source = Some("local")

\* A started invocation that does not fetch has returned in the step that
\* started it, and the text of the response is parsed and looked up in the
\* step that delivers it: neither parsing nor lookup suspends.
NoSuspensionInCore ==
    \A c \in CallIds :
        /\ (calls[c].pc = "idle" /\ calls'[c].pc # "idle"
                /\ ~calls'[c].fetched) => calls'[c].pc = "done"
        /\ (calls[c].pc = "awaitText" /\ calls'[c] # calls[c]) =>
               calls'[c].pc = "done"

\* What an invocation has returned is never replaced or withdrawn.
ReturnsOnce ==
    \A c \in CallIds : calls[c].pc = "done" => calls'[c] = calls[c]

\* C30: provided the remote fetch eventually resolves or rejects, every
\* invocation of pi_changelog eventually returns, and returns exactly one
\* result, a success or a failure; parsing and lookup complete within the
\* step that calls them, without suspending.
C30_EveryInvocationReturns ==
    /\ \A c \in CallIds : (calls[c].pc # "idle") ~> (calls[c].pc = "done")
    /\ [][ReturnsOnce]_vars
    /\ [][NoSuspensionInCore]_vars
    /\ [](\A c \in CallIds :
             calls[c].pc = "done" => calls[c].details.message # <<>>)

\* One invocation returned after the response text arrived, the other
\* after its fetch gave nothing.
C30_Witness ==
    /\ calls["c1"].pc = "done"
    /\ calls["c1"].fetched
    /\ calls["c1"].githubContent = Some(DocWith200)
    /\ calls["c1"].details.success
    /\ calls["c2"].pc = "done"
    /\ calls["c2"].fetched
    /\ calls["c2"].githubContent = None
    /\ ~calls["c2"].details.success

====
